---- MODULE Spec2Model ----
(***************************************************************************)
(* Model of fetti_lead_gen_mvp.py: the column normalizer                   *)
(* (normalize_columns), the batch scoring function (score_lead) and the    *)
(* "Run Lead Scoring" handler of view_scoring_tab.                         *)
(*                                                                         *)
(* Text is a sequence of one-character strings, so that lower(), upper(),  *)
(* strip() and Python's substring test `k in s` are computed, not assumed. *)
(* A CSV cell is a record [kind, num, txt]:                                *)
(*   kind = "absent"  the row has no such column (row.get gives default)   *)
(*   kind = "nan"     the cell is empty: pandas stores float NaN           *)
(*   kind = "str"     a string cell, txt its characters                    *)
(*   kind = "num"     a numeric cell, num its (integer) value              *)
(***************************************************************************)
EXTENDS Integers, Sequences, FiniteSets, TLC

VARIABLES row, config, result, pc,
          df, df_scored, ui,
          columns, df_columns, col_claims

vars == <<row, config, result, pc, df, df_scored, ui, columns, df_columns, col_claims>>

scoreVars == <<row, config, result, pc>>
batchVars == <<df, df_scored, ui>>
normVars == <<columns, df_columns, col_claims>>

----------------------------------------------------------------------------
(* Python values *)

Absent == [kind |-> "absent", num |-> 0, txt |-> <<>>]
NaN == [kind |-> "nan", num |-> 0, txt |-> <<>>]
None == [kind |-> "none", num |-> 0, txt |-> <<>>]
Str(t) == [kind |-> "str", num |-> 0, txt |-> t]
Num(n) == [kind |-> "num", num |-> n, txt |-> <<>>]

Uppers == <<"A","B","C","D","E","F","G","H","I","J","K","L","M","N","O","P","Q","R","S","T","U","V","W","X","Y","Z">>
Lowers == <<"a","b","c","d","e","f","g","h","i","j","k","l","m","n","o","p","q","r","s","t","u","v","w","x","y","z">>
Digits == <<"0","1","2","3","4","5","6","7","8","9">>

IndexOf(c, alphabet) ==
    IF \E i \in 1..Len(alphabet) : alphabet[i] = c
    THEN CHOOSE i \in 1..Len(alphabet) : alphabet[i] = c
    ELSE 0

\* str.lower() and str.upper(), character by character
lower(s) == [i \in 1..Len(s) |->
               IF IndexOf(s[i], Uppers) > 0 THEN Lowers[IndexOf(s[i], Uppers)] ELSE s[i]]
upper(s) == [i \in 1..Len(s) |->
               IF IndexOf(s[i], Lowers) > 0 THEN Uppers[IndexOf(s[i], Lowers)] ELSE s[i]]

\* str.strip(): leading and trailing blanks removed
RECURSIVE lstrip(_)
lstrip(s) == IF s # <<>> /\ Head(s) = " " THEN lstrip(Tail(s)) ELSE s
RECURSIVE rstrip(_)
rstrip(s) == IF s # <<>> /\ s[Len(s)] = " " THEN rstrip(SubSeq(s, 1, Len(s) - 1)) ELSE s
strip(s) == rstrip(lstrip(s))

\* Python's `k in s` for strings: k occurs in s as a contiguous substring
Contains(s, k) ==
    \E i \in 1..(Len(s) - Len(k) + 1) : SubSeq(s, i, i + Len(k) - 1) = k
ContainsAny(s, ks) == \E k \in ks : Contains(s, k)

\* float() of a string of decimal digits (blanks around it allowed); any
\* other text of the sampled cells makes float() raise ValueError.
RECURSIVE DigitsValue(_)
DigitsValue(s) ==
    IF s = <<>> THEN 0
    ELSE 10 * DigitsValue(SubSeq(s, 1, Len(s) - 1)) + (IndexOf(s[Len(s)], Digits) - 1)
IsDigits(s) == s # <<>> /\ \A i \in 1..Len(s) : IndexOf(s[i], Digits) > 0

\* row.get(key, default) on a pandas Series
row_get(r, key, default) == IF r[key].kind = "absent" THEN default ELSE r[key]

\* def safe_float(x, default=None): float(x), or None when float() raises
safe_float(x) ==
    CASE x.kind = "num" -> x
      [] x.kind = "nan" -> NaN
      [] x.kind = "str" -> IF IsDigits(strip(x.txt)) THEN Num(DigitsValue(strip(x.txt))) ELSE None
      [] OTHER -> None

\* def safe_str(x): "" for a missing value, else str(x).strip().lower()
safe_str(x) ==
    IF x.kind \in {"nan", "none"} THEN <<>> ELSE lower(strip(x.txt))

\* Python truthiness of a value: None, 0 and "" are falsy, NaN is truthy
Truthy(x) ==
    CASE x.kind = "none" -> FALSE
      [] x.kind = "num" -> x.num # 0
      [] x.kind = "str" -> x.txt # <<>>
      [] OTHER -> TRUE

\* float comparisons: every comparison with NaN is False
IsNum(v) == v.kind = "num"
Lt(v, n) == IsNum(v) /\ v.num < n
Le(v, n) == IsNum(v) /\ v.num <= n
Ge(v, n) == IsNum(v) /\ v.num >= n
Gt(v, n) == IsNum(v) /\ v.num > n

----------------------------------------------------------------------------
(* score_lead *)

DEFAULT_STATES == { <<"C","A">>, <<"T","X">>, <<"F","L">>, <<"A","Z">>, <<"N","V">>, <<"C","O">>, <<"G","A">> }
PRODUCT_TYPES == {"Any", "Refi", "Purchase", "DSCR Investor", "Bridge / Fix & Flip"}

RefiKeywords == { <<"r","e","f","i">>, <<"r","e","f","i","n","a","n","c","e">>, <<"r","a","t","e"," ","a","n","d"," ","t","e","r","m">>, <<"c","a","s","h"," ","o","u","t">>, <<"c","a","s","h","-","o","u","t">> }
InvestorKeywords == { <<"i","n","v","e","s","t","o","r">>, <<"n","o","n","-","o","w","n","e","r">>, <<"r","e","n","t","a","l">> }
BridgeKeywords == { <<"b","r","i","d","g","e">>, <<"f","i","x"," ","a","n","d"," ","f","l","i","p">>, <<"f","l","i","p">>, <<"r","e","h","a","b">> }

\* state = (row.get("state") or "").upper(): a float NaN is truthy and has
\* no upper(), so the call raises AttributeError
StateOrEmpty(r) ==
    LET x == row_get(r, "state", None) IN IF Truthy(x) THEN x ELSE Str(<<>>)
StateRaises(r) == StateOrEmpty(r).kind # "str"
StateUpper(r) == upper(StateOrEmpty(r).txt)

\* the four product filters
ProductRejects(purpose, occ, desired_product) ==
    LET is_refi == ContainsAny(purpose, RefiKeywords)
        is_purchase == Contains(purpose, <<"p","u","r","c","h","a","s","e">>)
        is_investor == ContainsAny(occ, InvestorKeywords)
        is_bridge == ContainsAny(purpose, BridgeKeywords)
    IN \/ desired_product = "Refi" /\ ~is_refi
       \/ desired_product = "Purchase" /\ ~is_purchase
       \/ desired_product = "DSCR Investor" /\ ~is_investor
       \/ desired_product = "Bridge / Fix & Flip" /\ ~is_bridge

StatePoints(state, states) ==
    IF states # {} /\ state \in states THEN 10 ELSE -5

ValuePoints(val) ==
    IF Truthy(val)
    THEN CASE Ge(val, 250000) /\ Le(val, 900000) -> 15
           [] Gt(val, 900000) /\ Le(val, 2000000) -> 12
           [] Ge(val, 150000) /\ Lt(val, 250000) -> 5
           [] Gt(val, 2000000) -> 8
           [] OTHER -> 0
    ELSE 0

\* the comparison of line 102 the wrong way round
CreditRejects_Inverted(cs, min_cs) == cs.kind # "none" /\ Gt(cs, min_cs)
CreditRejects(cs, min_cs) == cs.kind # "none" /\ Lt(cs, min_cs)
CreditPoints(cs, min_cs) ==
    IF cs.kind # "none"
    THEN CASE Ge(cs, 740) -> 15
           [] Ge(cs, 700) -> 10
           [] Ge(cs, min_cs) -> 5
           [] OTHER -> 0
    ELSE 0

AssetsRejects(assets, min_assets) == assets.kind # "none" /\ Lt(assets, min_assets)
AssetsPoints(assets, min_assets) ==
    IF assets.kind # "none"
    THEN CASE Ge(assets, 150000) -> 15
           [] Ge(assets, 75000) -> 10
           [] Ge(assets, min_assets) -> 5
           [] OTHER -> 0
    ELSE 0

CltvPoints(cltv) ==
    IF cltv.kind # "none"
    THEN CASE Le(cltv, 60) -> 15
           [] Le(cltv, 75) -> 10
           [] Le(cltv, 85) -> 5
           [] OTHER -> 0
    ELSE 0

SourcePoints(source) ==
    (IF Contains(source, <<"f","a","c","e","b","o","o","k">>) \/ Contains(source, <<"m","e","t","a">>) THEN 5 ELSE 0)
    + (IF Contains(source, <<"g","o","o","g","l","e">>) THEN 5 ELSE 0)
    + (IF Contains(source, <<"d","a","t","a","_","v","e","n","d","o","r">>) \/ Contains(source, <<"l","i","s","t">>) THEN 2 ELSE 0)

\* What a call gives: a returned value and the return statement that gave it
\* ("product": lines 72-79, "credit": 103, "assets": 115, "end": 140), or an
\* exception raised out of the call.
Return(v, at) == [kind |-> "return", value |-> v, at |-> at]
Raise == [kind |-> "raise", value |-> 0, at |-> "state"]
NoResult == [kind |-> "none", value |-> 0, at |-> "none"]

score_lead(r, c) ==
    LET purpose == safe_str(row_get(r, "loan_purpose", Str(<<>>)))
        occ == safe_str(row_get(r, "occupancy", Str(<<>>)))
        val == safe_float(row_get(r, "property_value", None))
        cs == safe_float(row_get(r, "credit_score", None))
        assets == safe_float(row_get(r, "liquid_assets", None))
        cltv == safe_float(row_get(r, "cltv", None))
        source == safe_str(row_get(r, "source", Str(<<>>)))
    IN  IF StateRaises(r) THEN Raise
        ELSE IF ProductRejects(purpose, occ, c.product_focus) THEN Return(-1, "product")
        ELSE IF CreditRejects(cs, c.min_credit) THEN Return(-1, "credit")
        ELSE IF AssetsRejects(assets, c.min_assets) THEN Return(-1, "assets")
        ELSE Return(0 + 10
                    + StatePoints(StateUpper(r), c.states)
                    + ValuePoints(val)
                    + CreditPoints(cs, c.min_credit)
                    + AssetsPoints(assets, c.min_assets)
                    + CltvPoints(cltv)
                    + SourcePoints(source), "end")

----------------------------------------------------------------------------------------------------------------------------------------
(* Inputs of score_lead.  Two base inputs: the specification's scenario    *)
(* (a record with every field filled in, scored for Refi in CA) and a      *)
(* record with no canonical column at all, scored with no product and no   *)
(* target state.  The inputs checked are those that differ from a base     *)
(* input in at most MaxVaried fields of the record and the config, each    *)
(* field taking the values of its sample set.                              *)

MaxVaried == 3

RowFields == <<"loan_purpose", "occupancy", "state", "property_value",
               "credit_score", "liquid_assets", "cltv", "source">>
ConfigFields == <<"product_focus", "states", "min_credit", "min_assets">>
FieldSet(fields) == {fields[i] : i \in 1..Len(fields)}

ScenarioRow ==
    [loan_purpose |-> Str(<<"C","a","s","h","-","O","u","t"," ","R","e","f","i">>), occupancy |-> Str(<<"I","n","v","e","s","t","o","r">>),
     state |-> Str(<<"C","A">>), property_value |-> Num(600000),
     credit_score |-> Num(760), liquid_assets |-> Num(200000),
     cltv |-> Num(55), source |-> Str(<<"f","a","c","e","b","o","o","k","_","a","d","s">>)]
ScenarioConfig ==
    [product_focus |-> "Refi", states |-> { <<"C","A">> }, min_credit |-> 640, min_assets |-> 20000]

BlankRow == [f \in FieldSet(RowFields) |-> Absent]
OpenConfig ==
    [product_focus |-> "Any", states |-> {}, min_credit |-> 640, min_assets |-> 20000]

Bases == {<<ScenarioRow, ScenarioConfig>>, <<BlankRow, OpenConfig>>}

MinCredits == {540, 640, 720, 780}

Samples ==
    [loan_purpose |-> {Absent, NaN, Str(<<"C","a","s","h","-","O","u","t"," ","R","e","f","i">>), Str(<<"P","u","r","c","h","a","s","e">>),
                       Str(<<" ","R","a","t","e"," ","a","n","d"," ","T","e","r","m"," ">>), Str(<<"F","i","x"," ","a","n","d"," ","F","l","i","p">>), Str(<<"D","S","C","R">>)},
     occupancy |-> {Absent, NaN, Str(<<"I","n","v","e","s","t","o","r">>), Str(<<"O","w","n","e","r">>)},
     state |-> {Absent, NaN, Str(<<"C","A">>), Str(<<"c","a">>), Str(<<"N","Y">>)},
     property_value |-> {Absent, NaN, Str(<<"a","b","c">>)} \cup
         {Num(n) : n \in {0, 149999, 150000, 249999, 250000, 600000,
                          900000, 900001, 2000000, 2000001}},
     credit_score |-> {Absent, NaN, Str(<<"a","b","c">>), Str(<<"6","0","0">>)} \cup
         {Num(n) : n \in {639, 640, 699, 700, 739, 740, 760}},
     liquid_assets |-> {Absent, NaN} \cup
         {Num(n) : n \in {0, 19999, 20000, 74999, 75000, 149999, 150000, 200000}},
     cltv |-> {Absent, NaN} \cup
         {Num(n) : n \in {55, 60, 61, 75, 76, 85, 86}},
     source |-> {Absent, NaN, Str(<<"f","a","c","e","b","o","o","k","_","a","d","s">>), Str(<<"G","o","o","g","l","e">>), Str(<<"m","e","t","a"," ","l","i","s","t">>),
                 Str(<<"d","a","t","a","_","v","e","n","d","o","r">>), Str(<<"r","e","f","e","r","r","a","l">>)},
     product_focus |-> PRODUCT_TYPES,
     states |-> {{}, { <<"C","A">> }, DEFAULT_STATES},
     min_credit |-> MinCredits,
     min_assets |-> {0, 20000, 200000}]

\* how many fields of the record r and the config c differ from the base b
Varied(r, c, b) ==
    Cardinality({f \in FieldSet(RowFields) : r[f] # b[1][f]})
    + Cardinality({f \in FieldSet(ConfigFields) : c[f] # b[2][f]})
\* one more field of a base input may be varied
MayVary(r, c, b) == Varied(r, c, b) < MaxVaried

----------------------------------------------------------------------------
(* Specification of one call of score_lead *)

BatchIdle == /\ df = <<>> /\ df_scored = <<>> /\ ui = "none"
NormIdle == /\ columns = <<>> /\ df_columns = <<>> /\ col_claims = <<>>

InitScore ==
    /\ \E b \in Bases : row = b[1] /\ config = b[2]
    /\ result = NoResult
    /\ pc = "ready"
    /\ BatchIdle
    /\ NormIdle

\* the caller's record: a field still as in a base input takes another
\* sampled value
VaryRow ==
    /\ pc = "ready"
    /\ \E b \in Bases : \E f \in FieldSet(RowFields) :
          /\ MayVary(row, config, b)
          /\ row[f] = b[1][f]
          /\ \E v \in Samples[f] \ {row[f]} : row' = [row EXCEPT ![f] = v]
    /\ UNCHANGED <<config, result, pc, batchVars, normVars>>

\* the sidebar's settings: a setting still as in a base input takes another
\* sampled value
VaryConfig ==
    /\ pc = "ready"
    /\ \E b \in Bases : \E f \in FieldSet(ConfigFields) :
          /\ MayVary(row, config, b)
          /\ config[f] = b[2][f]
          /\ \E v \in Samples[f] \ {config[f]} : config' = [config EXCEPT ![f] = v]
    /\ UNCHANGED <<row, result, pc, batchVars, normVars>>

ScoreLead ==
    /\ pc = "ready"
    /\ result' = score_lead(row, config)
    /\ pc' = "scored"
    /\ UNCHANGED <<row, config, batchVars, normVars>>

NextScore == VaryRow \/ VaryConfig \/ ScoreLead

SpecScore == InitScore /\ [][NextScore]_vars

----------------------------------------------------------------------------
(* The claims about score_lead, checked under SpecScore.  The Ref*         *)
(* operators restate the rules in the claims' words, independently of the  *)
(* operators above that model the code.                                    *)

Scored == pc = "scored"
IsRejection(res) == res.kind = "return" /\ res.value = -1
IsScore(res) == res.kind = "return" /\ res.value # -1

\* the text of a field as the rules read it: lower-cased, "" when unknown
RefText(cell) == IF cell.kind = "str" THEN lower(cell.txt) ELSE <<>>
\* a numeric field holds a number: a numeric cell or a string of digits
RefIsNumber(cell) ==
    \/ cell.kind = "num"
    \/ cell.kind = "str" /\ IsDigits(strip(cell.txt))
RefNumber(cell) == IF cell.kind = "num" THEN cell.num ELSE DigitsValue(strip(cell.txt))

RefMatchedField ==
    [p \in PRODUCT_TYPES \ {"Any"} |->
        IF p = "DSCR Investor" THEN "occupancy" ELSE "loan_purpose"]
RefKeywords ==
    [p \in PRODUCT_TYPES \ {"Any"} |->
        CASE p = "Refi" -> { <<"r","e","f","i">>, <<"r","e","f","i","n","a","n","c","e">>, <<"r","a","t","e"," ","a","n","d"," ","t","e","r","m">>, <<"c","a","s","h"," ","o","u","t">>, <<"c","a","s","h","-","o","u","t">> }
          [] p = "Purchase" -> { <<"p","u","r","c","h","a","s","e">> }
          [] p = "DSCR Investor" -> { <<"i","n","v","e","s","t","o","r">>, <<"n","o","n","-","o","w","n","e","r">>, <<"r","e","n","t","a","l">> }
          [] p = "Bridge / Fix & Flip" -> { <<"b","r","i","d","g","e">>, <<"f","i","x"," ","a","n","d"," ","f","l","i","p">>, <<"f","l","i","p">>, <<"r","e","h","a","b">> }]
RefProductMismatch(r, c) ==
    /\ c.product_focus # "Any"
    /\ ~ \E k \in RefKeywords[c.product_focus] :
            Contains(RefText(r[RefMatchedField[c.product_focus]]), k)
RefCreditBelow(r, c) ==
    RefIsNumber(r.credit_score) /\ RefNumber(r.credit_score) < c.min_credit
RefAssetsBelow(r, c) ==
    RefIsNumber(r.liquid_assets) /\ RefNumber(r.liquid_assets) < c.min_assets
RefRejected(r, c) ==
    RefProductMismatch(r, c) \/ RefCreditBelow(r, c) \/ RefAssetsBelow(r, c)

RefPoints(cell, points(_)) == IF RefIsNumber(cell) THEN points(RefNumber(cell)) ELSE 0
RefValuePoints(v) ==
    CASE 250000 <= v /\ v <= 900000 -> 15
      [] 900001 <= v /\ v <= 2000000 -> 12
      [] 150000 <= v /\ v <= 249999 -> 5
      [] v > 2000000 -> 8
      [] OTHER -> 0
RefCltvPoints(v) ==
    CASE v <= 60 -> 15
      [] 61 <= v /\ v <= 75 -> 10
      [] 76 <= v /\ v <= 85 -> 5
      [] OTHER -> 0
RefStatePoints(r, c) ==
    IF r.state.kind = "str" /\ upper(r.state.txt) \in c.states THEN 10 ELSE -5
RefSourcePoints(r) ==
    LET src == RefText(r.source) IN
    (IF Contains(src, <<"f","a","c","e","b","o","o","k">>) \/ Contains(src, <<"m","e","t","a">>) THEN 5 ELSE 0)
    + (IF Contains(src, <<"g","o","o","g","l","e">>) THEN 5 ELSE 0)
    + (IF Contains(src, <<"d","a","t","a","_","v","e","n","d","o","r">>) \/ Contains(src, <<"l","i","s","t">>) THEN 2 ELSE 0)
RefScore(r, c) ==
    LET RefCreditPoints(v) ==
            CASE v >= 740 -> 15
              [] 700 <= v /\ v <= 739 -> 10
              [] c.min_credit <= v /\ v <= 699 -> 5
              [] OTHER -> 0
        RefAssetsPoints(v) ==
            CASE v >= 150000 -> 15
              [] 75000 <= v /\ v <= 149999 -> 10
              [] c.min_assets <= v /\ v <= 74999 -> 5
              [] OTHER -> 0
    IN 10 + RefStatePoints(r, c)
       + RefPoints(r.property_value, RefValuePoints)
       + RefPoints(r.credit_score, RefCreditPoints)
       + RefPoints(r.liquid_assets, RefAssetsPoints)
       + RefPoints(r.cltv, RefCltvPoints)
       + RefSourcePoints(r)

\* C1: for every record, whichever fields are missing, empty or non-numeric,
\* and every config, score_lead returns a result and never raises.
C1_NeverRaises == Scored => result.kind = "return"

\* C2: score_lead rejects for product mismatch if and only if product_focus is
\* a specific product and the lower-cased matched field holds none of that
\* product's keywords; never with product_focus = Any.
C2_ProductFilter ==
    Scored => ((IsRejection(result) /\ result.at = "product") <=> RefProductMismatch(row, config))

\* C3: every record whose credit_score is numeric and below min_credit gets the
\* rejection sentinel, whatever its other fields hold.
C3_MinCreditRejects ==
    Scored /\ RefCreditBelow(row, config) => IsRejection(result)

\* C4: with product_focus = Any and no target states, a record that score_lead
\* scores (no min-credit or min-asset rejection) scores at least 10.
C4_EmptyTargetsAtLeastBase ==
    Scored /\ config.product_focus = "Any" /\ config.states = {} /\ IsScore(result)
        => result.value >= 10

\* C5: with a non-empty target_states set, every record of integer-valued
\* numeric fields that the hard filters do not reject gets exactly the
\* rubric's total.
NumericFields == {"property_value", "credit_score", "liquid_assets", "cltv"}
C5_ScoreEqualsRubric ==
    /\ Scored /\ config.states # {} /\ ~RefRejected(row, config)
    /\ \A f \in NumericFields : RefIsNumber(row[f])
    => result.kind = "return" /\ result.value = RefScore(row, config)

\* C10: a record rejected under min_credit m1 is rejected under every m2 >= m1
\* of a config that differs in min_credit only.
C10_MinCreditMonotone ==
    Scored /\ IsRejection(result) =>
        \A m2 \in MinCredits :
            m2 >= config.min_credit =>
                IsRejection(score_lead(row, [config EXCEPT !.min_credit = m2]))
\* a record accepted under a lower threshold, rejected for its credit score
\* under the config's, with a higher threshold left to compare with
C10_Witness ==
    /\ Scored /\ IsRejection(result) /\ result.at = "credit"
    /\ \E m0 \in MinCredits :
          m0 < config.min_credit /\ IsScore(score_lead(row, [config EXCEPT !.min_credit = m0]))
    /\ \E m2 \in MinCredits : m2 > config.min_credit

\* What holds of every call that returns (the calls that raise are C1's):

ReturnedProductFilter ==
    Scored /\ result.kind = "return"
        => ((result.value = -1 /\ result.at = "product") <=> RefProductMismatch(row, config))
ReturnedMinCreditRejects ==
    Scored /\ result.kind = "return" /\ RefCreditBelow(row, config) => IsRejection(result)
ReturnedRejectionIsRef ==
    Scored /\ result.kind = "return" => (IsRejection(result) <=> RefRejected(row, config))
ReturnedScoreEqualsRubric ==
    Scored /\ IsScore(result) /\ config.states # {} => result.value = RefScore(row, config)
ReturnedTotalNotNegative ==
    Scored /\ IsScore(result) => result.value >= 5
ScenarioScores85 ==
    Scored /\ row = ScenarioRow /\ config = ScenarioConfig => result = Return(85, "end")

----------------------------------------------------------------------------
(* The "Run Lead Scoring" handler of view_scoring_tab.  df is the uploaded *)
(* file after normalize_columns, one record per row; df_scored is the      *)
(* table the handler shows and offers for download, each entry a row's     *)
(* index label in df with its fetti_score.                                 *)

MaxRows == 3

BatchRows ==
    {ScenarioRow, BlankRow,
     [ScenarioRow EXCEPT !.source = Str(<<"G","o","o","g","l","e">>)],
     [ScenarioRow EXCEPT !.state = Str(<<"N","Y">>)],
     [ScenarioRow EXCEPT !.credit_score = Num(639)],
     [ScenarioRow EXCEPT !.state = NaN]}
BatchConfigs == {ScenarioConfig, OpenConfig}

Files == UNION {[1..n -> BatchRows] : n \in 0..MaxRows}

\* the sequences that hold every element of S exactly once
Orderings(S) ==
    {p \in [1..Cardinality(S) -> S] : \A i, j \in 1..Cardinality(S) : p[i] = p[j] => i = j}

\* df_scored[df_scored["fetti_score"] >= 10]: the base taken for the lowest total
KeptRows_AtLeastBase(scores) == {i \in DOMAIN scores : scores[i] >= 10}
\* df_scored[df_scored["fetti_score"] >= 0]
KeptRows(scores) == {i \in DOMAIN scores : scores[i] >= 0}

\* sort_values without ascending=False
sort_values_Ascending(kept, scores) ==
    {p \in Orderings(kept) : \A i \in 1..(Len(p) - 1) : scores[p[i]] <= scores[p[i + 1]]}
\* df.sort_values("fetti_score", ascending=False): kind defaults to
\* "quicksort", which is not stable, so rows of equal score come out in
\* any order.
sort_values(kept, scores) ==
    {p \in Orderings(kept) : \A i \in 1..(Len(p) - 1) : scores[p[i]] >= scores[p[i + 1]]}

ScoreIdle == /\ row = BlankRow /\ result = NoResult /\ pc = "none"

InitBatch ==
    /\ config \in BatchConfigs
    /\ df = <<>>
    /\ df_scored = <<>>
    /\ ui = "await_upload"
    /\ ScoreIdle
    /\ NormIdle

\* a CSV file is uploaded: the page shows its preview and the button
UploadCsv ==
    /\ ui = "await_upload"
    /\ df' \in Files
    /\ ui' = "preview"
    /\ UNCHANGED <<df_scored, scoreVars, normVars>>

\* if st.button("Run Lead Scoring"): ...
RunLeadScoring ==
    /\ ui = "preview"
    /\ LET results == [i \in 1..Len(df) |-> score_lead(df[i], config)]
           scores == [i \in 1..Len(df) |-> results[i].value]
           kept == KeptRows(scores)
       IN IF \E i \in 1..Len(df) : results[i].kind = "raise"
          THEN ui' = "exception" /\ df_scored' = <<>>
          ELSE IF kept = {}
          THEN ui' = "no_leads" /\ df_scored' = <<>>
          ELSE /\ ui' = "scored"
               /\ \E p \in sort_values(kept, scores) :
                     df_scored' = [k \in 1..Len(p) |->
                                     [index |-> p[k], fetti_score |-> scores[p[k]]]]
    /\ UNCHANGED <<df, scoreVars, normVars>>

NextBatch == UploadCsv \/ RunLeadScoring

SpecBatch == InitBatch /\ [][NextBatch]_vars

Finished == ui \in {"scored", "no_leads"}
Shown == {df_scored[k].index : k \in 1..Len(df_scored)}

NonIncreasing ==
    \A k \in 1..(Len(df_scored) - 1) :
        df_scored[k].fetti_score >= df_scored[k + 1].fetti_score
TiesInInputOrder ==
    \A k, l \in 1..Len(df_scored) :
        k < l /\ df_scored[k].fetti_score = df_scored[l].fetti_score
            => df_scored[k].index < df_scored[l].index

\* C7 as stated: the output is in non-increasing score order and rows of
\* equal score keep their input order.
C7_SortedAndStable == ui = "scored" => NonIncreasing /\ TiesInInputOrder

\* C7 as amended: the output is in non-increasing score order (rows of equal
\* score in either order).
C7_SortedDescending == ui = "scored" => NonIncreasing
\* an output of three rows with a tie and a lower total, from a file that
\* was not in score order
C7_Witness ==
    /\ ui = "scored" /\ Len(df_scored) = 3
    /\ df_scored[1].fetti_score = df_scored[2].fetti_score
    /\ df_scored[2].fetti_score > df_scored[3].fetti_score
    /\ df_scored[3].index = 1

----------------------------------------------------------------------------
(* normalize_columns.  columns is the header of the uploaded file, in      *)
(* order; df_columns the header after the renaming; col_claims the         *)
(* assignments col_map[source] = target in the order the loop makes them.  *)

MaxCols == 3

COLUMN_ALIASES ==
    << <<<<"f","i","r","s","t","_","n","a","m","e">>, <<<<"f","i","r","s","t","_","n","a","m","e">>, <<"f","i","r","s","t"," ","n","a","m","e">>, <<"f","n","a","m","e">>, <<"g","i","v","e","n","n","a","m","e">>>> >>,
       <<<<"l","a","s","t","_","n","a","m","e">>, <<<<"l","a","s","t","_","n","a","m","e">>, <<"l","a","s","t"," ","n","a","m","e">>, <<"l","n","a","m","e">>, <<"s","u","r","n","a","m","e">>>> >>,
       <<<<"e","m","a","i","l">>, <<<<"e","m","a","i","l">>, <<"e","m","a","i","l","_","a","d","d","r","e","s","s">>, <<"e","-","m","a","i","l">>>> >>,
       <<<<"p","h","o","n","e">>, <<<<"p","h","o","n","e">>, <<"p","h","o","n","e","_","n","u","m","b","e","r">>, <<"m","o","b","i","l","e">>>> >>,
       <<<<"p","r","o","p","e","r","t","y","_","v","a","l","u","e">>, <<<<"p","r","o","p","e","r","t","y","_","v","a","l","u","e">>, <<"e","s","t","_","v","a","l","u","e">>, <<"h","o","m","e","_","v","a","l","u","e">>, <<"z","e","s","t","i","m","a","t","e">>>> >>,
       <<<<"l","o","a","n","_","p","u","r","p","o","s","e">>, <<<<"p","u","r","p","o","s","e">>, <<"l","o","a","n","_","p","u","r","p","o","s","e">>, <<"c","a","m","p","a","i","g","n">>, <<"d","e","a","l","_","t","y","p","e">>>> >>,
       <<<<"o","c","c","u","p","a","n","c","y">>, <<<<"o","c","c","u","p","a","n","c","y">>, <<"o","c","c","_","t","y","p","e">>, <<"o","w","n","e","r","_","t","y","p","e">>>> >>,
       <<<<"s","t","a","t","e">>, <<<<"s","t","a","t","e">>, <<"p","r","o","p","e","r","t","y","_","s","t","a","t","e">>, <<"m","a","i","l","_","s","t","a","t","e">>>> >>,
       <<<<"c","r","e","d","i","t","_","s","c","o","r","e">>, <<<<"c","r","e","d","i","t","_","s","c","o","r","e">>, <<"f","i","c","o">>, <<"c","r","e","d","i","t","_","b","a","n","d">>>> >>,
       <<<<"l","i","q","u","i","d","_","a","s","s","e","t","s">>, <<<<"l","i","q","u","i","d","_","a","s","s","e","t","s">>, <<"a","s","s","e","t","s">>, <<"c","a","s","h","_","r","e","s","e","r","v","e","s">>>> >>,
       <<<<"c","l","t","v">>, <<<<"c","l","t","v">>, <<"l","t","v">>, <<"c","o","m","b","i","n","e","d","_","l","t","v">>>> >>,
       <<<<"s","o","u","r","c","e">>, <<<<"s","o","u","r","c","e">>, <<"l","e","a","d","_","s","o","u","r","c","e">>, <<"o","r","i","g","i","n">>>> >> >>

\* the canonical field names of a lead record
CanonicalFields ==
    { <<"f","i","r","s","t","_","n","a","m","e">>, <<"l","a","s","t","_","n","a","m","e">>, <<"e","m","a","i","l">>, <<"p","h","o","n","e">>, <<"s","t","a","t","e">>, <<"o","c","c","u","p","a","n","c","y">>,
      <<"l","o","a","n","_","p","u","r","p","o","s","e">>, <<"p","r","o","p","e","r","t","y","_","v","a","l","u","e">>, <<"c","r","e","d","i","t","_","b","a","n","d">>, <<"c","r","e","d","i","t","_","s","c","o","r","e">>,
      <<"l","i","q","u","i","d","_","a","s","s","e","t","s">>, <<"c","l","t","v">>, <<"s","o","u","r","c","e">>, <<"n","o","t","e","s">> }

\* the column names a header is drawn from: the canonical names, some
\* aliases, some spellings in another case, and names no alias matches
ColumnNames ==
    CanonicalFields \cup
    { <<"p","u","r","p","o","s","e">>, <<"f","i","c","o">>, <<"f","n","a","m","e">>, <<"P","r","o","p","e","r","t","y","_","S","t","a","t","e">>, <<"S","t","a","t","e">>, <<"P","u","r","p","o","s","e">>,
      <<"F","I","C","O">>, <<"z","i","p">>, <<"c","r","e","a","t","e","d","_","a","t">> }

\* lower_map = {c.lower(): c for c in df.columns}: of the columns that
\* lower-case to k, the last one
InLowerMap(cols, k) == \E i \in 1..Len(cols) : lower(cols[i]) = k
LowerMapGet(cols, k) ==
    cols[CHOOSE i \in 1..Len(cols) :
            /\ lower(cols[i]) = k
            /\ \A j \in 1..Len(cols) : lower(cols[j]) = k => j <= i]

\* the inner loop: the first alias of the list that is in lower_map, 0 if none
FirstAlias(cols, aliases) ==
    IF \E a \in 1..Len(aliases) : InLowerMap(cols, aliases[a])
    THEN CHOOSE a \in 1..Len(aliases) :
            /\ InLowerMap(cols, aliases[a])
            /\ \A b \in 1..(a - 1) : ~InLowerMap(cols, aliases[b])
    ELSE 0

\* the outer loop over COLUMN_ALIASES.items(), from entry t on: the
\* assignments col_map[lower_map[alias]] = target, in order
RECURSIVE ColMapAssignments(_, _)
ColMapAssignments(cols, t) ==
    IF t > Len(COLUMN_ALIASES) THEN <<>>
    ELSE LET target == COLUMN_ALIASES[t][1]
             aliases == COLUMN_ALIASES[t][2]
             a == FirstAlias(cols, aliases)
         IN (IF a = 0 THEN <<>>
             ELSE << [source |-> LowerMapGet(cols, aliases[a]), target |-> target] >>)
            \o ColMapAssignments(cols, t + 1)

\* col_map.get(c, c) after the assignments: the last one made to key c
ColMapGet(assignments, c) ==
    IF \E i \in 1..Len(assignments) : assignments[i].source = c
    THEN assignments[CHOOSE i \in 1..Len(assignments) :
            /\ assignments[i].source = c
            /\ \A j \in 1..Len(assignments) : assignments[j].source = c => j <= i].target
    ELSE c

\* df.rename(columns=col_map): every label replaced in place
normalize_columns(cols) ==
    [i \in 1..Len(cols) |-> ColMapGet(ColMapAssignments(cols, 1), cols[i])]

InitNorm ==
    /\ columns = <<>>
    /\ df_columns = <<>>
    /\ col_claims = <<>>
    /\ pc = "header"
    /\ row = BlankRow /\ config = OpenConfig /\ result = NoResult
    /\ BatchIdle

\* pd.read_csv reads one more column of the header (labels are distinct)
ReadColumn ==
    /\ pc = "header"
    /\ Len(columns) < MaxCols
    /\ \E c \in ColumnNames :
          /\ \A i \in 1..Len(columns) : columns[i] # c
          /\ columns' = Append(columns, c)
    /\ UNCHANGED <<df_columns, col_claims, pc, row, config, result, batchVars>>

NormalizeColumns ==
    /\ pc = "header"
    /\ col_claims' = ColMapAssignments(columns, 1)
    /\ df_columns' = normalize_columns(columns)
    /\ pc' = "normalized"
    /\ UNCHANGED <<columns, row, config, result, batchVars>>

NextNorm == ReadColumn \/ NormalizeColumns

SpecNorm == InitNorm /\ [][NextNorm]_vars

Normalized == pc = "normalized"
Range(q) == {q[i] : i \in 1..Len(q)}
CaseFoldDistinct(cols) ==
    \A i, j \in 1..Len(cols) : lower(cols[i]) = lower(cols[j]) => i = j

\* C8: a header of canonical field names only comes out of normalize_columns
\* as it went in: no column renamed, lost or duplicated.
C8_CanonicalHeaderUnchanged ==
    Normalized /\ Range(columns) \subseteq CanonicalFields => df_columns = columns

\* C9: for a header whose names are distinct after case-folding, the output
\* has at most one column of each canonical field name, and no source column
\* is claimed by two canonical fields.
C9_OneColumnPerField ==
    Normalized /\ CaseFoldDistinct(columns) =>
        /\ \A i, j \in 1..Len(df_columns) :
              df_columns[i] = df_columns[j] /\ df_columns[i] \in CanonicalFields => i = j
        /\ \A i, j \in 1..Len(col_claims) :
              col_claims[i].source = col_claims[j].source => i = j

\* What holds of every header:

\* a canonical header changes only by credit_band becoming credit_score, and
\* only when it has no credit_score column
CanonicalHeaderButCreditBand ==
    Normalized /\ Range(columns) \subseteq CanonicalFields =>
        \A i \in 1..Len(columns) :
            df_columns[i] = IF columns[i] = <<"c","r","e","d","i","t","_","b","a","n","d">> /\ <<"c","r","e","d","i","t","_","s","c","o","r","e">> \notin Range(columns)
                            THEN <<"c","r","e","d","i","t","_","s","c","o","r","e">> ELSE columns[i]
\* no source column is claimed twice, and at most one per canonical field
ClaimsDisjoint ==
    Normalized =>
        \A i, j \in 1..Len(col_claims) :
            (col_claims[i].source = col_claims[j].source \/ col_claims[i].target = col_claims[j].target)
                => i = j
\* two output columns bear one canonical name only when the header has both
\* a "purpose" column and a "loan_purpose" column
DuplicateOnlyLoanPurpose ==
    Normalized /\ CaseFoldDistinct(columns) =>
        \A i, j \in 1..Len(df_columns) :
            df_columns[i] = df_columns[j] /\ i # j =>
                /\ df_columns[i] = <<"l","o","a","n","_","p","u","r","p","o","s","e">>
                /\ {lower(columns[i]), lower(columns[j])} = { <<"p","u","r","p","o","s","e">>, <<"l","o","a","n","_","p","u","r","p","o","s","e">> }

====
